---- MODULE Spec2Model ----
(***************************************************************************)
(* GitService of git_tools: the repository path it holds and GetStatus,   *)
(* the translation of `git status --porcelain=v1` into a GitStatus value. *)
(*                                                                         *)
(* A Go string is modelled as a sequence of one-character strings, so      *)
(* that slicing (line[:2], line[3:]), strings.Split, strings.TrimSpace,    *)
(* strings.TrimSuffix and strings.Fields are computed, not assumed.        *)
(***************************************************************************)
EXTENDS Integers, Sequences, FiniteSets, TLC

VARIABLES
    currentPath,   \* GitService.currentPath ("" until a repository is set)
    repo,          \* the repository at currentPath: what its git commands print
    status,        \* the *GitStatus the last GetStatus returned, or NoStatus
    changes,       \* the FileChange values GetStatus built, one per parsed line
    err,           \* the error of the last call
    gitCall,       \* the last call of a GitService method, with the git commands it ran
    config,        \* AIService.config, the held AI configuration
    aiCall,        \* the last call of an AIService method, with what it returned
    requests,      \* the HTTP requests that call handed to client.Do, in order
    ctx,           \* App.ctx: "nil" until startup has run
    persisted,     \* ConfigService.config.AI, what GetAIConfig returns
    recentRepos,   \* ConfigService.config.RecentRepos
    appCall,       \* the last call of an App or ConfigService method
    prompts,       \* TemplateService.prompts.Prompts, the prompts.json variant
    promptRows,    \* the rows of the prompts table, the database variant
    nextID,        \* the number of IDs uuid.New has handed out, plus one
    promptCall     \* the last call of a TemplateService method

gitVars == <<currentPath, repo, status, changes, err, gitCall>>

aiVars == <<config, aiCall, requests>>

appVars == <<ctx, persisted, recentRepos, appCall>>

tplVars == <<prompts, promptRows, nextID, promptCall>>

vars ==
    <<currentPath, repo, status, changes, err, gitCall, config, aiCall, requests,
      ctx, persisted, recentRepos, appCall, prompts, promptRows, nextID, promptCall>>

(***************************************************************************)
(* strings                                                                 *)
(***************************************************************************)

\* unicode.IsSpace, on the ASCII characters the inputs use
Whitespace == {" ", "\t", "\n", "\r"}

HasSuffix(s, p) == Len(s) >= Len(p) /\ SubSeq(s, Len(s) - Len(p) + 1, Len(s)) = p

\* sep occurs in s starting at position i
OccursAt(s, sep, i) == i + Len(sep) - 1 <= Len(s) /\ SubSeq(s, i, i + Len(sep) - 1) = sep

\* strings.Contains
Contains(s, sep) == \E i \in 1..Len(s) : OccursAt(s, sep, i)

\* strings.Index, 1-based (0 when sep does not occur)
Index(s, sep) ==
    IF Contains(s, sep)
    THEN CHOOSE i \in 1..Len(s) : OccursAt(s, sep, i) /\ \A j \in 1..(i - 1) : ~OccursAt(s, sep, j)
    ELSE 0

\* strings.Split for a non-empty separator: the pieces between the
\* non-overlapping occurrences of sep, scanned from the left
RECURSIVE Split(_, _)
Split(s, sep) ==
    LET i == Index(s, sep)
    IN  IF i = 0
        THEN <<s>>
        ELSE <<SubSeq(s, 1, i - 1)>> \o Split(SubSeq(s, i + Len(sep), Len(s)), sep)

\* strings.TrimSuffix
TrimSuffix(s, suffix) ==
    IF HasSuffix(s, suffix) THEN SubSeq(s, 1, Len(s) - Len(suffix)) ELSE s

\* strings.TrimSpace
RECURSIVE TrimSpace(_)
TrimSpace(s) ==
    IF s = <<>> THEN s
    ELSE IF Head(s) \in Whitespace THEN TrimSpace(Tail(s))
    ELSE IF s[Len(s)] \in Whitespace THEN TrimSpace(SubSeq(s, 1, Len(s) - 1))
    ELSE s

\* the longest prefix of s without whitespace
RECURSIVE Token(_)
Token(s) ==
    IF s = <<>> \/ Head(s) \in Whitespace THEN <<>> ELSE <<Head(s)>> \o Token(Tail(s))

\* strings.Fields: the maximal runs of non-whitespace characters
RECURSIVE Fields(_)
Fields(s) ==
    IF s = <<>> THEN <<>>
    ELSE IF Head(s) \in Whitespace THEN Fields(Tail(s))
    ELSE LET t == Token(s)
         IN  <<t>> \o Fields(SubSeq(s, Len(t) + 1, Len(s)))

Arrow == <<"-", ">">>

Newline == <<"\n">>

\* the lines of a command's output, joined by "\n"
RECURSIVE JoinLines(_)
JoinLines(ls) ==
    IF ls = <<>> THEN <<>>
    ELSE IF Len(ls) = 1 THEN ls[1]
    ELSE ls[1] \o Newline \o JoinLines(Tail(ls))

(***************************************************************************)
(* the git commands GetStatus runs                                         *)
(***************************************************************************)

\* the outcome of one `git ...` process: whether it ran, whether it exited
\* with status 0, and what it printed
NotRun == [ran |-> FALSE, ok |-> FALSE, out |-> <<>>]

Printed(text) == [ran |-> TRUE, ok |-> TRUE, out |-> text]

Failed == [ran |-> TRUE, ok |-> FALSE, out |-> <<>>]

\* no repository is selected, so no git command has anything to print
NoRepo == [revParse |-> NotRun, sb |-> NotRun, porcelain |-> NotRun, lines |-> <<>>]

\* runGitCommand: ("", err) when git fails, else the output without one
\* trailing "\n"
runGitCommand(res) ==
    IF ~res.ok
    THEN [out |-> <<>>, failed |-> TRUE]
    ELSE [out |-> TrimSuffix(res.out, Newline), failed |-> FALSE]

\* the record of a GitService call: the method, its arguments, the argument
\* lists of the git commands it ran, in order, and the error it returned
GitCall(op, params, cmds, error) ==
    [op |-> op, params |-> params, cmds |-> cmds, err |-> error]

NoGitCall == GitCall("", <<>>, <<>>, "")

(***************************************************************************)
(* GetStatus                                                               *)
(***************************************************************************)

\* the argument lists of the three commands of GetStatus
GetStatusCommands ==
    << <<"rev-parse", "--abbrev-ref", "HEAD">>, <<"status", "-sb">>,
       <<"status", "--porcelain=v1">> >>

NoStatus ==
    [Branch |-> <<>>, Staged |-> <<>>, Unstaged |-> <<>>, Untracked |-> <<>>,
     IsRepo |-> FALSE, HasChanges |-> FALSE]

\* mutant: the "!!" case is missing
getStatusDescription_NoIgnored(code) ==
    CASE code = <<"M", " ">> -> "Staged"
      [] code = <<" ", "M">> -> "Modified"
      [] code = <<"M", "M">> -> "Modified (staged and unstaged)"
      [] code = <<"A", " ">> -> "Added"
      [] code = <<" ", "D">> -> "Deleted"
      [] code = <<"D", " ">> -> "Deleted (staged)"
      [] code = <<"R", " ">> -> "Renamed"
      [] code = <<"C", " ">> -> "Copied"
      [] code = <<"?", "?">> -> "Untracked"
      [] OTHER -> "Unknown"

getStatusDescription(code) ==
    CASE code = <<"M", " ">> -> "Staged"
      [] code = <<" ", "M">> -> "Modified"
      [] code = <<"M", "M">> -> "Modified (staged and unstaged)"
      [] code = <<"A", " ">> -> "Added"
      [] code = <<" ", "D">> -> "Deleted"
      [] code = <<"D", " ">> -> "Deleted (staged)"
      [] code = <<"R", " ">> -> "Renamed"
      [] code = <<"C", " ">> -> "Copied"
      [] code = <<"?", "?">> -> "Untracked"
      [] code = <<"!", "!">> -> "Ignored"
      [] OTHER -> "Unknown"

\* mutant: the length test off by one
LineLongEnough_Two(line) == Len(line) >= 2

\* if len(line) >= 3
LineLongEnough(line) == Len(line) >= 3

\* mutant: the original path (parts[0]) is kept instead of the new one
ResolvePath_First(filePath) ==
    IF Contains(filePath, Arrow)
    THEN TrimSpace(Split(filePath, Arrow)[1])
    ELSE filePath

\* "Handle renamed files": the text after the last "->", trimmed, for
\* every path that contains "->"
ResolvePath(filePath) ==
    IF Contains(filePath, Arrow)
    THEN LET parts == Split(filePath, Arrow)
         IN  TrimSpace(parts[Len(parts)])
    ELSE filePath

\* mutant: the 'C' case is missing
IsStagedIndex_NoCopy(x) == x \in {"M", "A", "R"}

\* switch statusCode[0] { case 'M', 'A', 'R', 'C': ... }
IsStagedIndex(x) == x \in {"M", "A", "R", "C"}

\* if statusCode[0] == '?'
IsUntrackedIndex(x) == x = "?"

\* mutant: the inner `statusCode[0] != '?'` test is missing
IsUnstagedCode_NoGuard(x, y) == y = "M" \/ (x = "?" /\ y = "?")

\* mutant: staged paths are kept out of Unstaged
IsUnstagedCode_WorktreeOnly(x, y) == (y = "M" \/ (x = "?" /\ y = "?")) /\ x \notin {"?", "M"}

\* mutant: the worktree test compares with the wrong character
IsUnstagedCode_Deleted(x, y) == (y = "D" \/ (x = "?" /\ y = "?")) /\ x /= "?"

\* the two nested ifs that guard the append to Unstaged
IsUnstagedCode(x, y) == (y = "M" \/ (x = "?" /\ y = "?")) /\ x /= "?"

\* one iteration of `for _, line := range lines`; acc carries the three
\* lists and the FileChange built for every line that was parsed
ParseLine(acc, line) ==
    IF line = <<>> \/ ~LineLongEnough(line)
    THEN acc
    ELSE LET statusCode == SubSeq(line, 1, 2)
             filePath == ResolvePath(SubSeq(line, 4, Len(line)))
             change == [Path |-> filePath, Status |-> getStatusDescription(statusCode)]
         IN  [Staged |-> IF IsStagedIndex(statusCode[1])
                         THEN Append(acc.Staged, change) ELSE acc.Staged,
              Untracked |-> IF IsUntrackedIndex(statusCode[1])
                            THEN Append(acc.Untracked, filePath) ELSE acc.Untracked,
              Unstaged |-> IF IsUnstagedCode(statusCode[1], statusCode[2])
                           THEN Append(acc.Unstaged, change) ELSE acc.Unstaged,
              changes |-> Append(acc.changes, change)]

RECURSIVE ParseLines(_, _)
ParseLines(acc, lines) ==
    IF lines = <<>> THEN acc ELSE ParseLines(ParseLine(acc, Head(lines)), Tail(lines))

EmptyLists == [Staged |-> <<>>, Unstaged |-> <<>>, Untracked |-> <<>>, changes |-> <<>>]

\* strings.Fields(branchStatus)[0] indexes an empty slice when branchStatus
\* holds whitespace only: a run-time panic
BranchOverridePanics(branchStatus) == branchStatus /= <<>> /\ Fields(branchStatus) = <<>>

\* status.Branch after the rev-parse and the status -sb commands
ResolveBranch(branch, branchStatus) ==
    IF branchStatus /= <<>>
    THEN Fields(branchStatus)[1]
    ELSE IF ~branch.failed THEN TrimSpace(branch.out) ELSE <<>>

\* GetStatus; the three git commands print repo.revParse, repo.sb and
\* repo.porcelain
GetStatusEffect ==
    /\ UNCHANGED <<currentPath, repo>>
    /\ IF currentPath = ""
       THEN /\ err' = "no repository selected"
            /\ status' = NoStatus
            /\ changes' = <<>>
       ELSE LET branch == runGitCommand(repo.revParse)
                branchStatus == runGitCommand(repo.sb).out
                output == runGitCommand(repo.porcelain)
            IN  IF BranchOverridePanics(branchStatus)
                THEN /\ err' = "panic"
                     /\ status' = NoStatus
                     /\ changes' = <<>>
                ELSE IF output.failed
                THEN /\ err' = "failed to get git status"
                     /\ status' = NoStatus
                     /\ changes' = <<>>
                ELSE IF output.out = <<>>
                THEN /\ err' = ""
                     /\ changes' = <<>>
                     /\ status' = [Branch |-> ResolveBranch(branch, branchStatus),
                                   Staged |-> <<>>, Unstaged |-> <<>>,
                                   Untracked |-> <<>>, IsRepo |-> TRUE,
                                   HasChanges |-> FALSE]
                ELSE LET acc == ParseLines(EmptyLists, Split(output.out, Newline))
                     IN  /\ err' = ""
                         /\ changes' = acc.changes
                         /\ status' = [Branch |-> ResolveBranch(branch, branchStatus),
                                       Staged |-> acc.Staged,
                                       Unstaged |-> acc.Unstaged,
                                       Untracked |-> acc.Untracked,
                                       IsRepo |-> TRUE,
                                       HasChanges |-> TRUE]

    /\ gitCall' = GitCall("GetStatus", <<>>,
                           IF currentPath = ""
                           THEN <<>>
                           ELSE IF err' = "panic"
                           THEN SubSeq(GetStatusCommands, 1, 2)
                           ELSE GetStatusCommands,
                           err')

\* GetStatus called on the GitService alone
GetStatus == GetStatusEffect /\ UNCHANGED <<aiVars, appVars, tplVars>>

(***************************************************************************)
(* SetPath                                                                 *)
(***************************************************************************)

\* SetPath(path), where os.Stat finds the directory (dirExists) and its
\* .git entry (gitDirExists) or not, and `found` is the repository there
SetPathEffect(path, dirExists, gitDirExists, found) ==
    /\ status' = NoStatus
    /\ changes' = <<>>
    /\ IF ~dirExists
       THEN err' = "directory does not exist" /\ UNCHANGED <<currentPath, repo>>
       ELSE IF ~gitDirExists
       THEN err' = "not a git repository" /\ UNCHANGED <<currentPath, repo>>
       ELSE err' = "" /\ currentPath' = path /\ repo' = found
    /\ gitCall' = GitCall("SetPath", <<path>>, <<>>, err')

\* SetPath called on the GitService alone
SetPath(path, dirExists, gitDirExists, found) ==
    SetPathEffect(path, dirExists, gitDirExists, found) /\ UNCHANGED <<aiVars, appVars, tplVars>>

(***************************************************************************)
(* the other operations of GitService                                      *)
(***************************************************************************)

\* mutant: the operation runs without a repository
Selected_Always(path) == TRUE

\* g.currentPath == "" returns "no repository selected"
Selected(path) == path /= ""

\* what an operation does once its arguments are known: invalid is the
\* error of its argument check ("" when it passes), args the argument list
\* of its git command, gitOk whether that command succeeds
Attempt(invalid, args, gitOk) ==
    IF ~Selected(currentPath)
    THEN [err |-> "no repository selected", cmds |-> <<>>]
    ELSE IF invalid /= ""
    THEN [err |-> invalid, cmds |-> <<>>]
    ELSE [err |-> IF gitOk THEN "" ELSE "git failed", cmds |-> <<args>>]

\* the operation returns r; `after` is the repository once its command has
\* succeeded
Operation(op, params, r, after) ==
    /\ gitCall' = GitCall(op, params, r.cmds, r.err)
    /\ err' = r.err
    /\ status' = NoStatus
    /\ changes' = <<>>
    /\ repo' = IF r.cmds /= <<>> /\ r.err = "" THEN after ELSE repo
    /\ UNCHANGED currentPath
    /\ UNCHANGED <<aiVars, appVars, tplVars>>

\* the argument list of git clone
CloneArgs(url, path, branch) ==
    <<"clone">> \o (IF branch /= "" THEN <<"-b", branch>> ELSE <<>>) \o <<url, path>>

\* Clone(opts), where the destination exists and holds files (destFull) or
\* not, and `cloned` is the repository git clone makes
Clone(url, path, branch, destFull, gitOk, cloned) ==
    LET invalid == IF url = "" THEN "URL cannot be empty"
                   ELSE IF path = "" THEN "path cannot be empty"
                   ELSE IF destFull THEN "destination path already exists and is not empty"
                   ELSE ""
        error == IF invalid /= "" THEN invalid ELSE IF gitOk THEN "" ELSE "git failed"
    IN  /\ gitCall' = GitCall("Clone", <<url, path, branch>>,
                              IF invalid /= "" THEN <<>> ELSE <<CloneArgs(url, path, branch)>>,
                              error)
        /\ err' = error
        /\ status' = NoStatus
        /\ changes' = <<>>
        /\ IF error = ""
           THEN currentPath' = path /\ repo' = cloned
           ELSE UNCHANGED <<currentPath, repo>>
        /\ UNCHANGED <<aiVars, appVars, tplVars>>

GetRemotes(gitOk) ==
    Operation("GetRemotes", <<>>, Attempt("", <<"remote", "-v">>, gitOk), repo)

\* GetRemoteNames: the check, then GetRemotes
GetRemoteNames(gitOk) ==
    Operation("GetRemoteNames", <<>>, Attempt("", <<"remote", "-v">>, gitOk), repo)

AddRemote(name, url, gitOk, after) ==
    Operation("AddRemote", <<name, url>>,
              Attempt(IF name = "" THEN "remote name cannot be empty"
                      ELSE IF url = "" THEN "remote URL cannot be empty"
                      ELSE "",
                      <<"remote", "add", name, url>>, gitOk),
              after)

RemoveRemote(name, gitOk, after) ==
    Operation("RemoveRemote", <<name>>,
              Attempt(IF name = "" THEN "remote name cannot be empty" ELSE "",
                      <<"remote", "remove", name>>, gitOk),
              after)

\* StageFiles(files): nothing is run for an empty list
StageFiles(files, gitOk, after) ==
    Operation("StageFiles", files,
              IF Selected(currentPath) /\ files = <<>>
              THEN [err |-> "", cmds |-> <<>>]
              ELSE Attempt("", <<"add">> \o files, gitOk),
              after)

UnstageFiles(files, gitOk, after) ==
    Operation("UnstageFiles", files,
              IF Selected(currentPath) /\ files = <<>>
              THEN [err |-> "", cmds |-> <<>>]
              ELSE Attempt("", <<"reset">> \o files, gitOk),
              after)

\* Commit(message); the message is a sequence of characters
Commit(message, gitOk, after) ==
    Operation("Commit", <<message>>,
              Attempt(IF TrimSpace(message) = <<>> THEN "commit message cannot be empty" ELSE "",
                      <<"commit", "-m", message>>, gitOk),
              after)

GetBranches(gitOk) ==
    Operation("GetBranches", <<>>, Attempt("", <<"branch", "-a">>, gitOk), repo)

CheckoutBranch(branch, gitOk, after) ==
    Operation("CheckoutBranch", <<branch>>,
              Attempt(IF branch = "" THEN "branch name cannot be empty" ELSE "",
                      <<"checkout", branch>>, gitOk),
              after)

CreateBranch(branch, checkout, gitOk, after) ==
    Operation("CreateBranch", <<branch>>,
              Attempt(IF branch = "" THEN "branch name cannot be empty" ELSE "",
                      IF checkout THEN <<"checkout", "-b", branch>> ELSE <<"branch", branch>>,
                      gitOk),
              after)

GetDiff(filePath, staged, gitOk) ==
    Operation("GetDiff", <<filePath>>,
              Attempt("", IF staged THEN <<"diff", "--staged", filePath>>
                          ELSE <<"diff", filePath>>, gitOk),
              repo)

\* GetLog(limit); limit is given as the text %d prints
GetLog(limit, gitOk) ==
    Operation("GetLog", <<limit>>,
              Attempt("", <<"log", "-" \o limit, "--pretty=format:%H|%s|%an|%ad", "--date=iso">>,
                      gitOk),
              repo)

DiscardChanges(filePath, gitOk, after) ==
    Operation("DiscardChanges", <<filePath>>,
              Attempt("", <<"checkout", "--", filePath>>, gitOk), after)

Push(remote, gitOk, after) ==
    Operation("Push", <<remote>>,
              Attempt("", <<"push">> \o (IF remote /= "" THEN <<remote>> ELSE <<>>), gitOk),
              after)

Pull(remote, branch, gitOk, after) ==
    Operation("Pull", <<remote, branch>>,
              Attempt("", <<"pull">> \o (IF remote /= "" THEN <<remote>> ELSE <<>>)
                              \o (IF branch /= "" THEN <<branch>> ELSE <<>>),
                      gitOk),
              after)

Reset(resetType, commit, gitOk, after) ==
    Operation("Reset", <<resetType, commit>>,
              Attempt("", <<"reset", "--" \o resetType>>
                              \o (IF commit /= "" THEN <<commit>> ELSE <<>>),
                      gitOk),
              after)

Revert(commit, noCommit, gitOk, after) ==
    Operation("Revert", <<commit>>,
              Attempt("", <<"revert">> \o (IF noCommit THEN <<"--no-commit">> ELSE <<>>)
                              \o <<commit>>,
                      gitOk),
              after)

GetTags(gitOk) ==
    Operation("GetTags", <<>>,
              Attempt("", <<"tag", "-l",
                            "--format=%(refname:short)|%(objectname:short)|%(contents:subject)|%(contents:body)">>,
                      gitOk),
              repo)

\* args of CreateTag: "tag", then "-a", "-m", message or else name, then
\* commit when there is one
CreateTagArgs(name, message, commit) ==
    <<"tag">> \o (IF message /= "" THEN <<"-a", "-m", message>> ELSE <<name>>)
        \o (IF commit /= "" THEN <<commit>> ELSE <<>>)

CreateTag(name, message, commit, gitOk, after) ==
    Operation("CreateTag", <<name, message, commit>>,
              Attempt(IF name = "" THEN "tag name cannot be empty" ELSE "",
                      CreateTagArgs(name, message, commit), gitOk),
              after)

DeleteTag(name, gitOk, after) ==
    Operation("DeleteTag", <<name>>,
              Attempt(IF name = "" THEN "tag name cannot be empty" ELSE "",
                      <<"tag", "-d", name>>, gitOk),
              after)

CheckoutTag(name, gitOk, after) ==
    Operation("CheckoutTag", <<name>>,
              Attempt(IF name = "" THEN "tag name cannot be empty" ELSE "",
                      <<"checkout", name>>, gitOk),
              after)

MergeBranch(branch, noFF, gitOk, after) ==
    Operation("MergeBranch", <<branch>>,
              Attempt(IF branch = "" THEN "branch name cannot be empty" ELSE "",
                      <<"merge">> \o (IF noFF THEN <<"--no-ff">> ELSE <<>>) \o <<branch>>,
                      gitOk),
              after)

DeleteBranch(name, force, gitOk, after) ==
    Operation("DeleteBranch", <<name>>,
              Attempt(IF name = "" THEN "branch name cannot be empty" ELSE "",
                      <<"branch", IF force THEN "-D" ELSE "-d", name>>, gitOk),
              after)

DiffBranches(branch1, branch2, gitOk) ==
    Operation("DiffBranches", <<branch1, branch2>>,
              Attempt("", <<"diff", branch1 \o "..." \o branch2>>, gitOk), repo)

\* GetCommitDetail(commitHash), where the log command succeeds with four
\* fields or more (gitOk, formatOk); git show runs after that
GetCommitDetail(commitHash, gitOk, formatOk) ==
    LET log == <<"log", "-1", "--format=%H|%s|%an|%ad|%ae", "--date=iso", commitHash>>
        show == <<"show", "--stat", "--format=", commitHash>>
    IN  Operation("GetCommitDetail", <<commitHash>>,
                  IF ~Selected(currentPath)
                  THEN [err |-> "no repository selected", cmds |-> <<>>]
                  ELSE IF ~gitOk
                  THEN [err |-> "commit not found", cmds |-> <<log>>]
                  ELSE IF ~formatOk
                  THEN [err |-> "invalid commit format", cmds |-> <<log>>]
                  ELSE [err |-> "", cmds |-> <<log, show>>],
                  repo)

(***************************************************************************)
(* inputs                                                                  *)
(***************************************************************************)

\* the longest multi-line porcelain output that is tried
MaxLines == 2

\* index and worktree characters of porcelain v1 (X and Y)
StatusChars == {" ", "M", "A", "D", "R", "C", "?", "!", "U"}

F == <<"f">>

RenameSpaced == <<"o", " ", "-", ">", " ", "n">>

RenameTight == <<"o", "-", ">", "n">>

RenameTwice == <<"o", " ", "-", ">", " ", "m", "-", ">", " ", "n", " ">>

\* the text that follows the third character of a line
PathTexts == {<<>>, F, RenameSpaced, RenameTight, RenameTwice}

Line(x, y, text) == <<x, y, " ">> \o text

\* every code with every path text
FullLines == {Line(x, y, t) : x \in StatusChars, y \in StatusChars, t \in PathTexts}

\* the lines that multi-line outputs are built from: one per way a line is
\* classified, an empty line and two lines that are too short
CoreLines ==
    {Line("M", " ", F), Line(" ", "M", F), Line("M", "M", F), Line("?", "?", <<"n">>),
     Line(" ", "D", F), Line("R", " ", RenameSpaced), <<>>, <<"M">>, <<"?", "?">>}

SeqsUpTo(S, n) == UNION {[1..k -> S] : k \in 0..n}

PorcelainLines == {<<l>> : l \in FullLines} \cup SeqsUpTo(CoreLines, MaxLines)

\* git ends its output with "\n"; an output without it is tried too
Tails == {<<>>, Newline}

\* what `git rev-parse --abbrev-ref HEAD` does
RevParseResults == {Failed, Printed(<<" ", "m", "\t", "\n">>)}

\* what `git status -sb` does
SbResults ==
    {Failed, Printed(<<>>), Printed(<<"#", "#", " ", "m", "\n">>),
     Printed(<<"\t", "b", ".", "o", " ", "x">>), Printed(<<" ">>)}

\* what `git status --porcelain=v1` does, with the lines it wrote
PorcelainResults ==
    {[porcelain |-> Printed(JoinLines(ls) \o t), lines |-> ls] : ls \in PorcelainLines, t \in Tails}
        \cup {[porcelain |-> Failed, lines |-> <<>>]}

Repos ==
    {[revParse |-> r, sb |-> s, porcelain |-> p.porcelain, lines |-> p.lines] :
        r \in RevParseResults, s \in SbResults, p \in PorcelainResults}

Dirs == {"/repo"}

\* the repository found at a directory is the one already selected there
RepoAt(path) == IF path = currentPath THEN {repo} ELSE Repos

(***************************************************************************)
(* AIService: configuration and validation                                 *)
(***************************************************************************)

ProviderOpenAI == "openai"

ProviderClaude == "claude"

ProviderOllama == "ollama"

AIConfig(provider, apiKey, baseURL, model) ==
    [Provider |-> provider, APIKey |-> apiKey, BaseURL |-> baseURL, Model |-> model]

\* an error value; the fields an error message does not mention are empty
NoError == [kind |-> "", provider |-> "", status |-> 0, body |-> 0]

ErrorOf(kind) == [kind |-> kind, provider |-> "", status |-> 0, body |-> 0]

ProviderError(kind, provider) == [kind |-> kind, provider |-> provider, status |-> 0, body |-> 0]

\* fmt.Errorf("API error (status %d): %s", resp.StatusCode, string(body))
APIError(statusCode, body) ==
    [kind |-> "API error", provider |-> "", status |-> statusCode, body |-> body]

\* a run-time panic instead of a return
Panic == ErrorOf("panic")

\* GetConfig
GetConfig == config

\* mutant: the ollama case asks for a key too
ValidationError_AllNeedKey(c) ==
    IF c.Provider \in {ProviderOpenAI, ProviderClaude, ProviderOllama} /\ c.APIKey = ""
    THEN ProviderError("API key is required", c.Provider)
    ELSE IF c.Provider = ""
    THEN ErrorOf("provider must be specified")
    ELSE NoError

\* the switch and the test that ValidateConfig and ValidateConfigParam share
\* word for word, on the configuration c
ValidationError(c) ==
    IF c.Provider \in {ProviderOpenAI, ProviderClaude} /\ c.APIKey = ""
    THEN ProviderError("API key is required", c.Provider)
    ELSE IF c.Provider = ""
    THEN ErrorOf("provider must be specified")
    ELSE NoError

\* mutant: the candidate is stored, as SetConfig does
ConfigAfterValidateParam_Stored(held, candidate) == candidate

\* what ValidateConfigParam leaves in a.config
ConfigAfterValidateParam(held, candidate) == held

\* mutant: the diff is compared without strings.TrimSpace
PreflightError_NoTrim(c, diff) ==
    IF diff = <<>>
    THEN ErrorOf("diff is empty")
    ELSE IF c.APIKey = "" /\ c.Provider /= ProviderOllama
    THEN ProviderError("API key is required", c.Provider)
    ELSE NoError

\* the checks of GenerateCommitMessage that precede the switch
PreflightError(c, diff) ==
    IF TrimSpace(diff) = <<>>
    THEN ErrorOf("diff is empty")
    ELSE IF c.APIKey = "" /\ c.Provider /= ProviderOllama
    THEN ProviderError("API key is required", c.Provider)
    ELSE NoError

\* mutant: every provider falls back to gpt-4
getModel_OneDefault(c) == IF c.Model /= "" THEN c.Model ELSE "gpt-4"

\* getModel
getModel(c) ==
    IF c.Model /= ""
    THEN c.Model
    ELSE CASE c.Provider = ProviderOpenAI -> "gpt-4"
           [] c.Provider = ProviderClaude -> "claude-3-sonnet-20240229"
           [] c.Provider = ProviderOllama -> "llama2"
           [] OTHER -> "gpt-4"

\* mutant: the default is not substituted
BaseURLOr_Held(c, default) == c.BaseURL

\* baseURL := a.config.BaseURL; if baseURL == "" { baseURL = <default> }
BaseURLOr(c, default) == IF c.BaseURL = "" THEN default ELSE c.BaseURL

(***************************************************************************)
(* AIService: responses                                                    *)
(***************************************************************************)

\* what json.Unmarshal decodes into interface{}: nil (JSON null or a missing
\* key), a string, a float64, a []interface{}, a map[string]interface{} (a
\* sequence of <<key, value>>); Unparsable is a body that is not JSON
Nil == [t |-> "nil", v |-> <<>>]

JStr(text) == [t |-> "string", v |-> text]

JNum == [t |-> "number", v |-> <<>>]

JArr(items) == [t |-> "array", v |-> items]

JObj(pairs) == [t |-> "object", v |-> pairs]

Unparsable == [t |-> "invalid", v |-> <<>>]

\* m[key] on a map[string]interface{}: nil when the key is missing
MapGet(m, key) ==
    IF \E i \in DOMAIN m : m[i][1] = key
    THEN m[CHOOSE i \in DOMAIN m : m[i][1] = key][2]
    ELSE Nil

\* the outcome of reading a response: the text returned and the error
Outcome(text, error) == [text |-> text, err |-> error]

\* json.Unmarshal(body, &response) into a map[string]interface{} fails for a
\* body that is not JSON and for JSON that is no object and not null
UnmarshalFails(body) == body.t \notin {"object", "nil"}

\* response["choices"] ... strings.TrimSpace(content)
ExtractOpenAI(response) ==
    LET choices == MapGet(response, "choices")
    IN  IF choices.t /= "array" \/ Len(choices.v) = 0
        THEN Outcome(<<>>, ErrorOf("no choices in response"))
        ELSE LET choice == choices.v[1]
             IN  IF choice.t /= "object"
                 THEN Outcome(<<>>, Panic)
                 ELSE LET message == MapGet(choice.v, "message")
                      IN  IF message.t /= "object"
                          THEN Outcome(<<>>, Panic)
                          ELSE LET c == MapGet(message.v, "content")
                                   content == IF c.t = "string" THEN c.v ELSE <<>>
                               IN  Outcome(TrimSpace(content), NoError)

\* response["content"] ... strings.TrimSpace(text)
ExtractClaude(response) ==
    LET content == MapGet(response, "content")
    IN  IF content.t /= "array" \/ Len(content.v) = 0
        THEN Outcome(<<>>, ErrorOf("no content in response"))
        ELSE LET first == content.v[1]
             IN  IF first.t /= "object"
                 THEN Outcome(<<>>, Panic)
                 ELSE LET text == MapGet(first.v, "text")
                      IN  IF text.t /= "string"
                          THEN Outcome(<<>>, Panic)
                          ELSE Outcome(TrimSpace(text.v), NoError)

\* response["response"] ... strings.TrimSpace(respContent)
ExtractOllama(response) ==
    LET respContent == MapGet(response, "response")
    IN  IF respContent.t /= "string"
        THEN Outcome(<<>>, ErrorOf("no response in output"))
        ELSE Outcome(TrimSpace(respContent.v), NoError)

Extract(provider, response) ==
    CASE provider = ProviderOpenAI -> ExtractOpenAI(response)
      [] provider = ProviderClaude -> ExtractClaude(response)
      [] provider = ProviderOllama -> ExtractOllama(response)

\* http.StatusOK
StatusOK == 200

\* mutant: only server errors are surfaced
IsErrorStatus_ServerOnly(statusCode) == statusCode >= 500

\* resp.StatusCode != http.StatusOK
IsErrorStatus(statusCode) == statusCode /= StatusOK

(***************************************************************************)
(* AIService: the HTTP exchange                                            *)
(***************************************************************************)

\* a base URL url.Parse rejects ("missing protocol scheme"), so that
\* http.NewRequest returns an error
UnparsableBase == ":"

NewRequestFails(baseURL) == baseURL = UnparsableBase

\* the request handed to client.Do: method, URL, headers, and of the JSON
\* body the model and the diff it embeds
Request(url, headers, model, diff) ==
    [method |-> "POST", url |-> url, headers |-> headers, model |-> model, diff |-> diff]

\* what a generateWith* call did: the requests it sent, the text and the
\* error it returned
Generated(sent, text, error) == [requests |-> sent, text |-> text, err |-> error]

\* the steps the three generateWith* functions share: NewRequest, client.Do,
\* io.ReadAll, the status test, json.Unmarshal, and the provider's extraction;
\* r is what the server does with the request, bodies the response bodies
Exchange(provider, baseURL, request, r, bodies) ==
    IF NewRequestFails(baseURL)
    THEN Generated(<<>>, <<>>, ErrorOf("failed to create request"))
    ELSE IF r.transport = "send fails"
    THEN Generated(<<request>>, <<>>, ErrorOf("failed to send request"))
    ELSE IF r.transport = "read fails"
    THEN Generated(<<request>>, <<>>, ErrorOf("failed to read response"))
    ELSE IF IsErrorStatus(r.status)
    THEN Generated(<<request>>, <<>>, APIError(r.status, r.body))
    ELSE IF UnmarshalFails(bodies[r.body])
    THEN Generated(<<request>>, <<>>, ErrorOf("failed to parse response"))
    ELSE LET o == Extract(provider, bodies[r.body].v)
         IN  Generated(<<request>>, o.text, o.err)

JSONContent == <<"Content-Type", "application/json">>

(***************************************************************************)
(* inputs of AIService                                                     *)
(***************************************************************************)

Blank == <<" ", "\n">>

Message == <<" ", "f", "\n">>

\* response bodies: not JSON, JSON that is no object, and for each provider
\* the shapes its extraction tells apart
Bodies ==
    << Unparsable,
       Nil,
       JArr(<<>>),
       JObj(<<>>),
       JObj(<< <<"choices", JStr(<<"x">>)>> >>),
       JObj(<< <<"choices", JArr(<<>>)>> >>),
       JObj(<< <<"choices", JArr(<<JStr(<<"x">>)>>)>> >>),
       JObj(<< <<"choices", JArr(<<JObj(<<>>)>>)>> >>),
       JObj(<< <<"choices", JArr(<<JObj(<< <<"message", JStr(<<"x">>)>> >>)>>)>> >>),
       JObj(<< <<"choices", JArr(<<JObj(<< <<"message", JObj(<<>>)>> >>)>>)>> >>),
       JObj(<< <<"choices", JArr(<<JObj(<< <<"message",
                   JObj(<< <<"content", JNum>> >>)>> >>)>>)>> >>),
       JObj(<< <<"choices", JArr(<<JObj(<< <<"message",
                   JObj(<< <<"content", JStr(Message)>> >>)>> >>)>>)>> >>),
       JObj(<< <<"choices", JArr(<<JObj(<< <<"message",
                   JObj(<< <<"content", JStr(Blank)>> >>)>> >>)>>)>> >>),
       JObj(<< <<"content", JStr(<<"x">>)>> >>),
       JObj(<< <<"content", JArr(<<>>)>> >>),
       JObj(<< <<"content", JArr(<<JStr(<<"x">>)>>)>> >>),
       JObj(<< <<"content", JArr(<<JObj(<<>>)>>)>> >>),
       JObj(<< <<"content", JArr(<<JObj(<< <<"text", JNum>> >>)>>)>> >>),
       JObj(<< <<"content", JArr(<<JObj(<< <<"text", JStr(Message)>> >>)>>)>> >>),
       JObj(<< <<"content", JArr(<<JObj(<< <<"text", JStr(Blank)>> >>)>>)>> >>),
       JObj(<< <<"response", JNum>> >>),
       JObj(<< <<"response", JStr(Message)>> >>),
       JObj(<< <<"response", JStr(Blank)>> >>) >>

\* what the server does with a request: the transport fails, or it answers
\* with a status code and a body (an index of Bodies)
Answer(statusCode, body) == [transport |-> "ok", status |-> statusCode, body |-> body]

Responses ==
    << [transport |-> "send fails", status |-> 0, body |-> 0],
       [transport |-> "read fails", status |-> StatusOK, body |-> 0] >>
    \o [b \in DOMAIN Bodies |-> Answer(StatusOK, b)]
    \o << Answer(201, 1), Answer(201, 12), Answer(404, 1), Answer(404, 19),
          Answer(500, 1), Answer(500, 22) >>

\* an empty diff, a blank one, and one with text
Diffs == {<<>>, Blank, <<" ", "d", "\n">>}

Providers == {ProviderOpenAI, ProviderClaude, ProviderOllama, "", "gemini"}

Configs ==
    {AIConfig(p, k, u, m) :
        p \in Providers, k \in {"", "k"}, u \in {"", "http://h", UnparsableBase},
        m \in {"", "m"}}

\* the configurations ValidateConfigParam is tried on
Candidates == {AIConfig(p, k, "", "") : p \in Providers, k \in {"", "k"}}

(***************************************************************************)
(* AIService: the methods                                                  *)
(***************************************************************************)

NoConfig == AIConfig("", "", "", "")

\* the record of a call: the method, its arguments, the server's answer
\* when client.Do was reached (else 0), the text and the error returned
Call(op, diff, candidate, resp, text, error) ==
    [op |-> op, diff |-> diff, candidate |-> candidate, resp |-> resp, text |-> text,
     err |-> error]

NoCall == Call("", <<>>, NoConfig, 0, <<>>, NoError)

\* NewAIService
InitAI ==
    /\ config = AIConfig(ProviderOpenAI, "", "https://api.openai.com/v1", "gpt-4")
    /\ aiCall = NoCall
    /\ requests = <<>>

SetConfigEffect(c) ==
    /\ config' = c
    /\ aiCall' = Call("SetConfig", <<>>, NoConfig, 0, <<>>, NoError)
    /\ requests' = <<>>

ValidateConfigEffect ==
    /\ aiCall' = Call("ValidateConfig", <<>>, NoConfig, 0, <<>>, ValidationError(config))
    /\ requests' = <<>>
    /\ UNCHANGED config

ValidateConfigParamEffect(c) ==
    /\ aiCall' = Call("ValidateConfigParam", <<>>, c, 0, <<>>, ValidationError(c))
    /\ config' = ConfigAfterValidateParam(config, c)
    /\ requests' = <<>>

\* the three methods called on the AIService alone
SetConfig(c) == SetConfigEffect(c) /\ UNCHANGED <<gitVars, appVars, tplVars>>

ValidateConfig == ValidateConfigEffect /\ UNCHANGED <<gitVars, appVars, tplVars>>

ValidateConfigParam(c) == ValidateConfigParamEffect(c) /\ UNCHANGED <<gitVars, appVars, tplVars>>

generateWithOpenAI(c, diff, r) ==
    LET baseURL == BaseURLOr(c, "https://api.openai.com/v1")
    IN  Exchange(ProviderOpenAI, baseURL,
                 Request(baseURL \o "/chat/completions",
                         {JSONContent, <<"Authorization", "Bearer " \o c.APIKey>>},
                         getModel(c), diff),
                 r, Bodies)

generateWithClaude(c, diff, r) ==
    LET baseURL == BaseURLOr(c, "https://api.anthropic.com/v1")
    IN  Exchange(ProviderClaude, baseURL,
                 Request(baseURL \o "/messages",
                         {JSONContent, <<"x-api-key", c.APIKey>>,
                          <<"anthropic-version", "2023-06-01">>},
                         getModel(c), diff),
                 r, Bodies)

generateWithOllama(c, diff, r) ==
    LET baseURL == BaseURLOr(c, "http://localhost:11434")
        model == IF getModel(c) = "" THEN "llama2" ELSE getModel(c)
    IN  Exchange(ProviderOllama, baseURL,
                 Request(baseURL \o "/api/generate", {JSONContent}, model, diff),
                 r, Bodies)

\* mutant: the default case falls back to openai
Dispatch_DefaultOpenAI(c, diff, r) ==
    CASE c.Provider = ProviderClaude -> generateWithClaude(c, diff, r)
      [] c.Provider = ProviderOllama -> generateWithOllama(c, diff, r)
      [] OTHER -> generateWithOpenAI(c, diff, r)

\* the switch of GenerateCommitMessage
Dispatch(c, diff, r) ==
    CASE c.Provider = ProviderOpenAI -> generateWithOpenAI(c, diff, r)
      [] c.Provider = ProviderClaude -> generateWithClaude(c, diff, r)
      [] c.Provider = ProviderOllama -> generateWithOllama(c, diff, r)
      [] OTHER -> Generated(<<>>, <<>>, ProviderError("unsupported AI provider", c.Provider))

\* GenerateCommitMessage(diff), where the server answers a request with r
GenerateCommitMessageEffect(diff, r) ==
    LET pre == PreflightError(config, diff)
        g == IF pre /= NoError THEN Generated(<<>>, <<>>, pre) ELSE Dispatch(config, diff, r)
    IN  /\ requests' = g.requests
        /\ aiCall' = Call("GenerateCommitMessage", diff, NoConfig,
                          IF g.requests = <<>>
                          THEN 0
                          ELSE CHOOSE i \in DOMAIN Responses : Responses[i] = r,
                          g.text, g.err)
        /\ UNCHANGED config

\* GenerateCommitMessage called on the AIService alone
GenerateCommitMessage(diff, r) ==
    GenerateCommitMessageEffect(diff, r) /\ UNCHANGED <<gitVars, appVars, tplVars>>

(***************************************************************************)
(* ConfigService: the recent-repository list                               *)
(***************************************************************************)

\* NewConfigService: the AI configuration before a file is loaded
DefaultAIConfig == AIConfig(ProviderOpenAI, "", "https://api.openai.com/v1", "gpt-4")

\* "Keep only last 10"
MaxRecent == 10

\* the list without its first entry equal to path (the loop with break)
RECURSIVE RemoveFirst(_, _)
RemoveFirst(list, path) ==
    IF list = <<>>
    THEN <<>>
    ELSE IF Head(list) = path
    THEN Tail(list)
    ELSE <<Head(list)>> \o RemoveFirst(Tail(list), path)

\* mutant: the path is put in front without removing its old entry
AddRecent_NoRemove(list, path) ==
    LET added == <<path>> \o list
    IN  IF Len(added) > MaxRecent THEN SubSeq(added, 1, MaxRecent) ELSE added

\* config.RecentRepos after AddRecentRepo(path)
AddRecent(list, path) ==
    LET added == <<path>> \o RemoveFirst(list, path)
    IN  IF Len(added) > MaxRecent THEN SubSeq(added, 1, MaxRecent) ELSE added

\* config.RecentRepos after RemoveRecentRepo(path)
RemoveRecent(list, path) == RemoveFirst(list, path)

(***************************************************************************)
(* App                                                                     *)
(***************************************************************************)

\* the record of a call: the method, its config argument and its path
\* argument, the error it returned and the error that one wraps, the text
\* returned, and for GenerateCommitMessage the staged paths, what each git
\* diff did and the aggregate diff
AppCall(op, c, error, cause, text, staged, fetches, diff) ==
    [op |-> op, config |-> c, path |-> "", err |-> error, cause |-> cause, text |-> text,
     staged |-> staged, fetches |-> fetches, diff |-> diff]

NoAppCall == AppCall("", NoConfig, "", NoError, <<>>, <<>>, <<>>, <<>>)

\* a call that returns error and collects no diff
Plain(op, c, error, cause) == AppCall(op, c, error, cause, <<>>, <<>>, <<>>, <<>>)

\* a call on a repository path
OnPath(op, path, error) == [Plain(op, NoConfig, error, NoError) EXCEPT !.path = path]

\* fmt.Errorf("AI configuration validation failed: %w", err)
ValidationFailed(cause) ==
    IF cause /= NoError THEN "AI configuration validation failed" ELSE ""

\* startup: aiConfig.APIKey != ""
StartupLoads(aiConfig) == aiConfig.APIKey /= ""

\* App.startup
startup ==
    /\ ctx = "nil"
    /\ ctx' = "ctx"
    /\ IF StartupLoads(persisted)
       THEN SetConfigEffect(persisted)
       ELSE UNCHANGED aiVars
    /\ appCall' = Plain("startup", NoConfig, "", NoError)
    /\ UNCHANGED <<gitVars, tplVars, persisted, recentRepos>>

\* App.SelectRepository(path): SetPath, then AddRecentRepo when it succeeded
SelectRepository(path, dirExists, gitDirExists, found) ==
    /\ ctx /= "nil"
    /\ SetPathEffect(path, dirExists, gitDirExists, found)
    /\ recentRepos' = IF err' = "" THEN AddRecent(recentRepos, path) ELSE recentRepos
    /\ appCall' = OnPath("SelectRepository", path, err')
    /\ UNCHANGED <<aiVars, tplVars, ctx, persisted>>

\* a.aiService.SetConfig(config), before the validation
HeldAfterSetAIConfig(held, c) == c

\* App.SetAIConfig(config), where ConfigService.Save succeeds (saveOk) or not
SetAIConfig(c, saveOk) ==
    LET v == ValidationError(HeldAfterSetAIConfig(config, c))
    IN  /\ ctx /= "nil"
        /\ config' = HeldAfterSetAIConfig(config, c)
        /\ aiCall' = Call("ValidateConfig", <<>>, NoConfig, 0, <<>>, v)
        /\ requests' = <<>>
        /\ persisted' = IF v = NoError THEN c ELSE persisted
        /\ appCall' = Plain("SetAIConfig", c,
                            IF v /= NoError THEN "AI configuration validation failed"
                            ELSE IF ~saveOk THEN "failed to save AI configuration"
                            ELSE "",
                            v)
        /\ UNCHANGED <<gitVars, tplVars, ctx, recentRepos>>

\* what c.Save() returns
SaveError(saveOk) == IF saveOk THEN "" ELSE "failed to write config file"

\* ConfigService.AddRecentRepo(path), called through the binding
AddRecentRepo(path, saveOk) ==
    /\ recentRepos' = AddRecent(recentRepos, path)
    /\ appCall' = OnPath("AddRecentRepo", path, SaveError(saveOk))
    /\ UNCHANGED <<gitVars, aiVars, tplVars, ctx, persisted>>

\* ConfigService.RemoveRecentRepo(path) (App.RemoveRecentRepository); Save
\* is called only when the path was in the list
RemoveRecentRepo(path, saveOk) ==
    /\ recentRepos' = RemoveRecent(recentRepos, path)
    /\ appCall' = OnPath("RemoveRecentRepo", path,
                         IF \E i \in DOMAIN recentRepos : recentRepos[i] = path
                         THEN SaveError(saveOk)
                         ELSE "")
    /\ UNCHANGED <<gitVars, aiVars, tplVars, ctx, persisted>>

\* mutant: the supplied configuration is always the one validated
TestsSupplied_Always(c) == TRUE

\* TestAIConnection: config.Provider != ""
TestsSupplied(c) == c.Provider /= ""

\* App.TestAIConnection(config)
TestAIConnection(c) ==
    /\ ctx /= "nil"
    /\ IF TestsSupplied(c) THEN ValidateConfigParamEffect(c) ELSE ValidateConfigEffect
    /\ appCall' = Plain("TestAIConnection", c, ValidationFailed(aiCall'.err), aiCall'.err)
    /\ UNCHANGED <<gitVars, tplVars, ctx, persisted, recentRepos>>

\* fmt.Sprintf("\n=== %s ===\n%s\n", file.Path, fileDiff)
Section(path, fileDiff) ==
    <<"\n", "=", "=", "=", " ">> \o path \o <<" ", "=", "=", "=", "\n">>
        \o fileDiff \o <<"\n">>

\* mutant: a failed fetch ends the loop
RECURSIVE CollectDiff_Break(_, _)
CollectDiff_Break(staged, fetches) ==
    IF staged = <<>>
    THEN <<>>
    ELSE LET fileDiff == runGitCommand(Head(fetches))
         IN  IF fileDiff.failed
             THEN <<>>
             ELSE Section(Head(staged).Path, fileDiff.out)
                      \o CollectDiff_Break(Tail(staged), Tail(fetches))

\* the loop over status.Staged: GetDiff(file.Path, true) runs git diff
\* --staged, which does fetches[i] for the i-th file; `continue` on an error
RECURSIVE CollectDiff(_, _)
CollectDiff(staged, fetches) ==
    IF staged = <<>>
    THEN <<>>
    ELSE LET fileDiff == runGitCommand(Head(fetches))
         IN  (IF fileDiff.failed THEN <<>> ELSE Section(Head(staged).Path, fileDiff.out))
                 \o CollectDiff(Tail(staged), Tail(fetches))

\* App.GenerateCommitMessage, where the git diff of the i-th staged file does
\* fetches[i] and the server answers a request with r
AppGenerateCommitMessage(fetches, r) ==
    /\ ctx /= "nil"
    /\ GetStatusEffect
    /\ IF err' /= ""
       THEN /\ appCall' = Plain("GenerateCommitMessage", NoConfig, err', NoError)
            /\ UNCHANGED aiVars
       ELSE LET staged == status'.Staged
                used == SubSeq(fetches, 1, Len(staged))
                diff == CollectDiff(staged, used)
            IN  IF diff = <<>>
                THEN /\ appCall' = AppCall("GenerateCommitMessage", NoConfig,
                                           "no staged changes to generate commit message for",
                                           NoError, <<>>, staged, used, diff)
                     /\ UNCHANGED aiVars
                ELSE /\ GenerateCommitMessageEffect(diff, r)
                     /\ appCall' = AppCall("GenerateCommitMessage", NoConfig,
                                           aiCall'.err.kind, aiCall'.err, aiCall'.text,
                                           staged, used, diff)
    /\ UNCHANGED <<tplVars, ctx, persisted, recentRepos>>

\* what `git diff --staged <path>` does
Fetched == Printed(<<"+", "\n">>)

\* what the git diff commands of one call do, file by file: every one fails,
\* every one prints, the first, the second or the third fails, one prints
\* nothing
FetchPlans ==
    {<<Failed, Failed, Failed>>, <<Fetched, Fetched, Fetched>>,
     <<Failed, Fetched, Fetched>>, <<Fetched, Failed, Fetched>>,
     <<Fetched, Fetched, Failed>>, <<Printed(<<>>), Failed, Failed>>}

\* the repositories the App is pointed at: no staged file, one, two, three
\* (a rename among them), and one whose status cannot be read
StagedOutputs ==
    {<<>>, <<Line(" ", "M", F)>>, <<Line("M", " ", F)>>,
     <<Line("A", " ", <<"a">>), Line(" ", "M", F), Line("M", "M", F)>>,
     <<Line("M", " ", F), Line("R", " ", RenameSpaced), Line("A", " ", <<"a">>)>>}

AppRepos ==
    {[revParse |-> Printed(<<"m", "\n">>), sb |-> Failed,
      porcelain |-> Printed(JoinLines(ls) \o Newline), lines |-> ls] : ls \in StagedOutputs}
        \cup {[revParse |-> Failed, sb |-> Failed, porcelain |-> Failed, lines |-> <<>>]}

\* the answers tried: a failed send, a success, an API error
AppResponses == {1, 14, 28}

\* the configurations a configuration file holds or the front end sends
AppConfigs ==
    {DefaultAIConfig, AIConfig(ProviderOpenAI, "k", "", ""), AIConfig(ProviderOllama, "", "", ""),
     AIConfig("gemini", "k", "", ""), AIConfig("", "k", "", "")}

(***************************************************************************)
(* TemplateService: the prompts                                            *)
(* prompts is the list of the file-based service, promptRows the rows of   *)
(* the prompts table of the database-based service that are not deleted;   *)
(* a prompt is its ID and its IsDefault flag, and IDs are never reused     *)
(***************************************************************************)

MaxID == 4

Prompt(id, isDefault) == [ID |-> id, IsDefault |-> isDefault]

\* the record of a TemplateService call: the method, the store it worked on,
\* the prompt it named or made, whether that prompt was there before the
\* call, the isDefault it asked for and the error it returned
PromptCall(op, store, id, existed, isDefault, error) ==
    [op |-> op, store |-> store, id |-> id, existed |-> existed,
     isDefault |-> isDefault, err |-> error]

NoPromptCall == PromptCall("", "", 0, FALSE, FALSE, "")

\* createDefaultPrompts: two prompts, the first one the default
createDefaultPrompts == <<Prompt(1, TRUE), Prompt(2, FALSE)>>

InitPrompts ==
    /\ prompts = createDefaultPrompts
    /\ promptRows = createDefaultPrompts
    /\ nextID = 3
    /\ promptCall = NoPromptCall

HasID(list, id) == \E i \in DOMAIN list : list[i].ID = id

\* the list with IsDefault = false in every entry
UnsetAll(list) == [i \in DOMAIN list |-> Prompt(list[i].ID, FALSE)]

\* the list with IsDefault = false in the entries of another ID
UnsetOthers(list, id) ==
    [i \in DOMAIN list |-> IF list[i].ID /= id THEN Prompt(list[i].ID, FALSE) ELSE list[i]]

\* the list with IsDefault = value in the entries of that ID
SetIsDefault(list, id, value) ==
    [i \in DOMAIN list |-> IF list[i].ID = id THEN Prompt(list[i].ID, value) ELSE list[i]]

\* the list without its first entry of that ID
RemoveID(list, id) ==
    LET at == {i \in DOMAIN list : list[i].ID = id}
        first == CHOOSE i \in at : \A j \in at : i <= j
    IN  IF at = {} THEN list
        ELSE SubSeq(list, 1, first - 1) \o SubSeq(list, first + 1, Len(list))

SavePromptsError(saveOk) == IF saveOk THEN "" ELSE "failed to write prompts file"

\* file-based CreatePrompt(name, description, template, isDefault)
CreatePrompt(isDefault, saveOk) ==
    /\ nextID <= MaxID
    /\ prompts' = Append(IF isDefault THEN UnsetAll(prompts) ELSE prompts,
                         Prompt(nextID, isDefault))
    /\ nextID' = nextID + 1
    /\ promptCall' = PromptCall("CreatePrompt", "file", nextID, FALSE, isDefault,
                                SavePromptsError(saveOk))
    /\ UNCHANGED <<promptRows, gitVars, aiVars, appVars>>

\* file-based UpdatePrompt(id, name, description, template, isDefault)
UpdatePrompt(id, isDefault, saveOk) ==
    LET cleared == IF isDefault THEN UnsetAll(prompts) ELSE prompts
    IN  /\ prompts' = IF HasID(prompts, id)
                      THEN SetIsDefault(cleared, id, isDefault)
                      ELSE prompts
        /\ promptCall' = PromptCall("UpdatePrompt", "file", id, HasID(prompts, id), isDefault,
                                    IF HasID(prompts, id) THEN SavePromptsError(saveOk)
                                    ELSE "prompt not found")
        /\ UNCHANGED <<promptRows, nextID, gitVars, aiVars, appVars>>

\* file-based DeletePrompt(id)
DeletePrompt(id, saveOk) ==
    /\ prompts' = RemoveID(prompts, id)
    /\ promptCall' = PromptCall("DeletePrompt", "file", id, HasID(prompts, id), FALSE,
                                IF HasID(prompts, id) THEN SavePromptsError(saveOk)
                                ELSE "prompt not found")
    /\ UNCHANGED <<promptRows, nextID, gitVars, aiVars, appVars>>

\* file-based SetDefaultPrompt(id): IsDefault = (ID == id) in every prompt
SetDefaultPrompt(id, saveOk) ==
    /\ prompts' = [i \in DOMAIN prompts |-> Prompt(prompts[i].ID, prompts[i].ID = id)]
    /\ promptCall' = PromptCall("SetDefaultPrompt", "file", id, HasID(prompts, id), TRUE,
                                SavePromptsError(saveOk))
    /\ UNCHANGED <<promptRows, nextID, gitVars, aiVars, appVars>>

\* gorm.Open is given a gorm.Config that does not set AllowGlobalUpdate
AllowGlobalUpdate == FALSE

\* db.Model(&models.PromptDB{}).Update("is_default", false), an update with
\* no condition: it changes every row only when global updates are allowed,
\* and its error is not read
GlobalUnsetDefault(rows) ==
    IF AllowGlobalUpdate THEN UnsetAll(rows) ELSE rows

\* database-based CreatePrompt
DBCreatePrompt(isDefault) ==
    /\ nextID <= MaxID
    /\ promptRows' = Append(IF isDefault THEN GlobalUnsetDefault(promptRows) ELSE promptRows,
                            Prompt(nextID, isDefault))
    /\ nextID' = nextID + 1
    /\ promptCall' = PromptCall("CreatePrompt", "db", nextID, FALSE, isDefault, "")
    /\ UNCHANGED <<prompts, gitVars, aiVars, appVars>>

\* database-based UpdatePrompt: First by id, unset the rows of another id
\* when isDefault, Save
DBUpdatePrompt(id, isDefault) ==
    LET cleared == IF isDefault THEN UnsetOthers(promptRows, id) ELSE promptRows
    IN  /\ promptRows' = IF HasID(promptRows, id)
                         THEN SetIsDefault(cleared, id, isDefault)
                         ELSE promptRows
        /\ promptCall' = PromptCall("UpdatePrompt", "db", id, HasID(promptRows, id), isDefault,
                                    IF HasID(promptRows, id) THEN "" ELSE "record not found")
        /\ UNCHANGED <<prompts, nextID, gitVars, aiVars, appVars>>

\* database-based DeletePrompt: no error when no row has the id
DBDeletePrompt(id) ==
    /\ promptRows' = RemoveID(promptRows, id)
    /\ promptCall' = PromptCall("DeletePrompt", "db", id, HasID(promptRows, id), FALSE, "")
    /\ UNCHANGED <<prompts, nextID, gitVars, aiVars, appVars>>

\* database-based SetDefaultPrompt: the update with no condition, then
\* is_default = true where id = id, whose error is the one returned
DBSetDefaultPrompt(id) ==
    /\ promptRows' = SetIsDefault(GlobalUnsetDefault(promptRows), id, TRUE)
    /\ promptCall' = PromptCall("SetDefaultPrompt", "db", id, HasID(promptRows, id), TRUE, "")
    /\ UNCHANGED <<prompts, nextID, gitVars, aiVars, appVars>>

(***************************************************************************)
(* specification                                                           *)
(***************************************************************************)

\* NewGitService: &GitService{}; NewAIService
Init ==
    /\ currentPath = ""
    /\ repo = NoRepo
    /\ status = NoStatus
    /\ changes = <<>>
    /\ err = ""
    /\ gitCall = NoGitCall
    /\ InitAI
    /\ ctx = "nil"
    /\ persisted = DefaultAIConfig
    /\ recentRepos = <<>>
    /\ appCall = NoAppCall
    /\ InitPrompts

Next ==
    \/ \E path \in Dirs, dirExists \in BOOLEAN, gitDirExists \in BOOLEAN :
           \E found \in RepoAt(path) : SetPath(path, dirExists, gitDirExists, found)
    \/ GetStatus

Spec == Init /\ [][Next]_vars

\* the calls of AIService, the git service left alone
NextAI ==
    \/ \E c \in Configs : SetConfig(c)
    \/ ValidateConfig
    \/ \E c \in Candidates : ValidateConfigParam(c)
    \/ \E diff \in Diffs, r \in DOMAIN Responses : GenerateCommitMessage(diff, Responses[r])

SpecAI == Init /\ [][NextAI]_vars

\* NewApp, with the configuration file NewConfigService loaded
InitApp ==
    /\ currentPath = ""
    /\ repo = NoRepo
    /\ status = NoStatus
    /\ changes = <<>>
    /\ err = ""
    /\ gitCall = NoGitCall
    /\ InitAI
    /\ ctx = "nil"
    /\ persisted \in AppConfigs
    /\ recentRepos = <<>>
    /\ appCall = NoAppCall
    /\ InitPrompts

\* the calls the front end makes on App, after startup
NextApp ==
    \/ startup
    \/ \E path \in Dirs, dirExists \in BOOLEAN, gitDirExists \in BOOLEAN :
           \E found \in (IF path = currentPath THEN {repo} ELSE AppRepos) :
               SelectRepository(path, dirExists, gitDirExists, found)
    \/ \E c \in AppConfigs, saveOk \in BOOLEAN : SetAIConfig(c, saveOk)
    \/ \E c \in AppConfigs : TestAIConnection(c)
    \/ \E fetches \in FetchPlans, r \in AppResponses :
           AppGenerateCommitMessage(fetches, Responses[r])

SpecApp == InitApp /\ [][NextApp]_vars

\* the repository paths tried for the recent list, in the order of the
\* lists a configuration file holds
RecentOrder == <<"/r1", "/r2", "/r3", "/r4", "/r5", "/r6", "/r7", "/r8", "/r9", "/r10">>

\* the recent lists a configuration file holds: what Save wrote earlier
RecentStarts == {SubSeq(RecentOrder, 1, k) : k \in 0..MaxRecent}

\* the paths added and removed: the first, a middle and the last of a full
\* list, and one that is in no list at the start
RecentPaths == {"/r1", "/r5", "/r10", "/r11"}

\* NewApp, with the recent list NewConfigService loaded
InitRecent ==
    /\ currentPath = ""
    /\ repo = NoRepo
    /\ status = NoStatus
    /\ changes = <<>>
    /\ err = ""
    /\ gitCall = NoGitCall
    /\ InitAI
    /\ ctx = "nil"
    /\ persisted = DefaultAIConfig
    /\ recentRepos \in RecentStarts
    /\ appCall = NoAppCall
    /\ InitPrompts

\* the calls that change the recent list
NextRecent ==
    \/ \E path \in RecentPaths, saveOk \in BOOLEAN : AddRecentRepo(path, saveOk)
    \/ \E path \in RecentPaths, saveOk \in BOOLEAN : RemoveRecentRepo(path, saveOk)

SpecRecent == InitRecent /\ [][NextRecent]_vars

\* the directories and repositories tried for the operations of GitService
OpsDirs == {"/repo", "/work"}

OpsRepos == {r \in AppRepos : Len(r.lines) <= 1}

\* the names tried for branches, tags, remotes, commits, files and messages
Names == {"", "n"}

CommitMessages == {<<>>, <<" ">>, <<"m">>}

FileLists == {<<>>, <<"f">>, <<"f", "g">>}

ResetTypes == {"soft", "mixed", "hard"}

\* the arguments tried for CreateTag
TagNames == {"", "v1"}

TagMessages == {"", "msg"}

TagCommits == {"", "abc"}

\* the calls on GitService
NextOps ==
    \E gitOk \in BOOLEAN, flag \in BOOLEAN, after \in OpsRepos, a \in Names, b \in Names :
        \/ \E path \in OpsDirs :
               SetPath(path, gitOk, flag, IF path = currentPath THEN repo ELSE after)
        \/ \E path \in {""} \cup OpsDirs, branch \in Names : Clone(a, path, branch, flag, gitOk, after)
        \/ GetStatus
        \/ GetRemotes(gitOk)
        \/ GetRemoteNames(gitOk)
        \/ AddRemote(a, b, gitOk, after)
        \/ RemoveRemote(a, gitOk, after)
        \/ \E files \in FileLists : StageFiles(files, gitOk, after)
        \/ \E files \in FileLists : UnstageFiles(files, gitOk, after)
        \/ \E message \in CommitMessages : Commit(message, gitOk, after)
        \/ GetBranches(gitOk)
        \/ CheckoutBranch(a, gitOk, after)
        \/ CreateBranch(a, flag, gitOk, after)
        \/ GetDiff(a, flag, gitOk)
        \/ GetLog("10", gitOk)
        \/ DiscardChanges(a, gitOk, after)
        \/ Push(a, gitOk, after)
        \/ Pull(a, b, gitOk, after)
        \/ \E resetType \in ResetTypes : Reset(resetType, a, gitOk, after)
        \/ Revert(a, flag, gitOk, after)
        \/ GetTags(gitOk)
        \/ \E name \in TagNames, message \in TagMessages, commit \in TagCommits :
               CreateTag(name, message, commit, gitOk, after)
        \/ DeleteTag(a, gitOk, after)
        \/ CheckoutTag(a, gitOk, after)
        \/ MergeBranch(a, flag, gitOk, after)
        \/ DeleteBranch(a, flag, gitOk, after)
        \/ DiffBranches(a, b, gitOk)
        \/ GetCommitDetail(a, gitOk, flag)

SpecOps == Init /\ [][NextOps]_vars

\* the prompt IDs named in calls: those handed out and one never handed out
PromptIDs == 1..(MaxID + 1)

\* the calls on the two TemplateServices
NextPrompts ==
    \E id \in PromptIDs, isDefault \in BOOLEAN, saveOk \in BOOLEAN :
        \/ CreatePrompt(isDefault, saveOk)
        \/ UpdatePrompt(id, isDefault, saveOk)
        \/ DeletePrompt(id, saveOk)
        \/ SetDefaultPrompt(id, saveOk)
        \/ saveOk /\ DBCreatePrompt(isDefault)
        \/ saveOk /\ DBUpdatePrompt(id, isDefault)
        \/ saveOk /\ isDefault /\ DBDeletePrompt(id)
        \/ saveOk /\ isDefault /\ DBSetDefaultPrompt(id)

SpecPrompts == Init /\ [][NextPrompts]_vars

(***************************************************************************)
(* properties of GetStatus                                                 *)
(***************************************************************************)

\* the last call was a GetStatus that returned a status and no error
Returned == err = "" /\ status.IsRepo

\* a porcelain line the parser reads: XY, one character, the path text
Valid(l) == Len(l) >= 3

ValidLines == SelectSeq(repo.lines, Valid)

CodeOf(l) == <<l[1], l[2]>>

PathText(l) == SubSeq(l, 4, Len(l))

PathOfLine(l) == ResolvePath(PathText(l))

StagedLine(l) == Valid(l) /\ l[1] \in {"M", "A", "R", "C"}

UnstagedLine(l) == Valid(l) /\ l[2] = "M" /\ l[1] /= "?"

UntrackedLine(l) == Valid(l) /\ l[1] = "?"

TrackedLine(l) == Valid(l) /\ l[1] /= "?"

ChangeOf(l) == [Path |-> PathOfLine(l), Status |-> getStatusDescription(CodeOf(l))]

PathsOf(list) == {list[i].Path : i \in DOMAIN list}

Elements(list) == {list[i] : i \in DOMAIN list}

MMText == "Modified (staged and unstaged)"

\* the codes git status --porcelain=v1 prints without --ignored, among
\* those the status table names
PrintedCodes ==
    {<<"M", " ">>, <<" ", "M">>, <<"M", "M">>, <<"A", " ">>, <<" ", "D">>, <<"D", " ">>,
     <<"R", " ">>, <<"C", " ">>, <<"?", "?">>}

\* the output is one git prints: lines "XY PATH", each ended by "\n"
WellFormed ==
    /\ repo.porcelain.ok
    /\ repo.porcelain.out = <<>> \/ HasSuffix(repo.porcelain.out, Newline)
    /\ \A i \in DOMAIN repo.lines :
           LET l == repo.lines[i]
           IN  Len(l) > 3 /\ CodeOf(l) \in PrintedCodes /\ l[3] = " "

\* C1: for every porcelain output (here: every output of well-formed lines,
\* as git prints them), HasChanges is true exactly when Staged, Unstaged or
\* Untracked is non-empty.
C1_HasChangesIffNonEmpty ==
    Returned /\ WellFormed =>
        (status.HasChanges <=>
            (status.Staged /= <<>> \/ status.Unstaged /= <<>> \/ status.Untracked /= <<>>))

\* C2: the lines of length >= 3 whose index character is M, A, R or C, and
\* only they, each add one FileChange to Staged, with the line's path and
\* the description of its two-character code; "M  f" gives one Staged entry
\* with category Staged and nothing else.
C2_StagedExactlyForIndexMARC ==
    Returned =>
        LET sl == SelectSeq(repo.lines, StagedLine)
        IN  /\ Len(status.Staged) = Len(sl)
            /\ \A i \in 1..Len(sl) : status.Staged[i] = ChangeOf(sl[i])
            /\ repo.lines = <<Line("M", " ", F)>> =>
                   /\ status.Staged = <<[Path |-> F, Status |-> "Staged"]>>
                   /\ status.Unstaged = <<>>
                   /\ status.Untracked = <<>>

C2_Witness ==
    /\ Returned
    /\ repo.lines = <<Line("M", " ", F)>>
    /\ Len(status.Staged) = 1

\* C3: the lines of length >= 3 with Y = 'M' and X /= '?', and only they,
\* each add one FileChange to Unstaged; " M f" is in Unstaged with category
\* Modified and not in Staged.
C3_UnstagedExactlyForWorktreeM ==
    Returned =>
        LET ul == SelectSeq(repo.lines, UnstagedLine)
        IN  /\ Len(status.Unstaged) = Len(ul)
            /\ \A i \in 1..Len(ul) : status.Unstaged[i] = ChangeOf(ul[i])
            /\ repo.lines = <<Line(" ", "M", F)>> =>
                   /\ status.Unstaged = <<[Path |-> F, Status |-> "Modified"]>>
                   /\ status.Staged = <<>>

C3_Witness ==
    /\ Returned
    /\ repo.lines = <<Line(" ", "M", F)>>
    /\ Len(status.Unstaged) = 1

\* C4 as claimed: the path of a line with code MM is in Staged with the
\* category of MM and is not in Unstaged.
C4_MMOnlyInStaged ==
    Returned =>
        \A i \in DOMAIN repo.lines :
            LET l == repo.lines[i]
            IN  Valid(l) /\ CodeOf(l) = <<"M", "M">> =>
                    /\ [Path |-> PathOfLine(l), Status |-> MMText] \in Elements(status.Staged)
                    /\ PathOfLine(l) \notin PathsOf(status.Unstaged)

\* C4 as amended: the path of a line with code MM is in Staged and also in
\* Unstaged, both times with the category of MM, and not in Untracked.
C4_MMInStagedAndUnstaged ==
    Returned =>
        \A i \in DOMAIN repo.lines :
            LET l == repo.lines[i]
            IN  Valid(l) /\ CodeOf(l) = <<"M", "M">> =>
                    /\ [Path |-> PathOfLine(l), Status |-> MMText] \in Elements(status.Staged)
                    /\ [Path |-> PathOfLine(l), Status |-> MMText] \in Elements(status.Unstaged)
                    /\ (Len(repo.lines) = 1 =>
                            /\ Len(status.Staged) = 1
                            /\ Len(status.Unstaged) = 1
                            /\ status.Untracked = <<>>)

C4_Witness ==
    /\ Returned
    /\ repo.lines = <<Line("M", "M", F)>>
    /\ PathsOf(status.Staged) = {F}
    /\ PathsOf(status.Unstaged) = {F}

\* C5: the lines of length >= 3 with X = '?', and only they, each add their
\* path, a string, to Untracked, and add nothing to Staged or Unstaged.
C5_UntrackedOnlyForIndexQuestion ==
    Returned =>
        LET ul == SelectSeq(repo.lines, UntrackedLine)
            tl == SelectSeq(repo.lines, TrackedLine)
        IN  /\ Len(status.Untracked) = Len(ul)
            /\ \A i \in 1..Len(ul) : status.Untracked[i] = PathOfLine(ul[i])
            /\ Len(status.Staged) <= Len(tl)
            /\ Len(status.Unstaged) <= Len(tl)

C5_Witness ==
    /\ Returned
    /\ repo.lines = <<Line("?", "?", <<"n">>), Line("M", " ", F)>>
    /\ status.Untracked = <<<<"n">>>>
    /\ PathsOf(status.Staged) = {F}

\* q is r without its leading and trailing whitespace
IsTrimOf(q, r) ==
    \E a \in 0..Len(r) :
        \E b \in 0..(Len(r) - a) :
            /\ \A k \in 1..a : r[k] \in Whitespace
            /\ \A k \in (Len(r) - b + 1)..Len(r) : r[k] \in Whitespace
            /\ q = SubSeq(r, a + 1, Len(r) - b)
            /\ q /= <<>> => (q[1] \notin Whitespace /\ q[Len(q)] \notin Whitespace)

\* p is the text after the last "->" of text, trimmed
IsAfterLastArrow(p, text) ==
    \E i \in 1..Len(text) :
        /\ OccursAt(text, Arrow, i)
        /\ \A j \in (i + 1)..Len(text) : ~OccursAt(text, Arrow, j)
        /\ IsTrimOf(p, SubSeq(text, i + 2, Len(text)))

\* p is the text before the first "->" of text, trimmed
IsBeforeFirstArrow(p, text) ==
    \E i \in 1..Len(text) :
        /\ OccursAt(text, Arrow, i)
        /\ \A j \in 1..(i - 1) : ~OccursAt(text, Arrow, j)
        /\ IsTrimOf(p, SubSeq(text, 1, i - 1))

RecordedPaths ==
    PathsOf(status.Staged) \cup PathsOf(status.Unstaged) \cup Elements(status.Untracked)

\* C6: for a line "XY ORIG -> NEW" the path of its FileChange, and every
\* path it adds to the lists, is the text after the last "->", trimmed,
\* never the original path; "R  o -> n" gives path n with category Renamed.
C6_RenameRecordsNewPath ==
    Returned =>
        /\ Len(changes) = Len(ValidLines)
        /\ \A k \in 1..Len(ValidLines) :
               Contains(PathText(ValidLines[k]), Arrow) =>
                   IsAfterLastArrow(changes[k].Path, PathText(ValidLines[k]))
        /\ RecordedPaths \subseteq {changes[k].Path : k \in DOMAIN changes}
        /\ \A l \in FullLines :
               repo.lines = <<l>> /\ Contains(PathText(l), Arrow) =>
                   \A p \in RecordedPaths :
                       /\ IsAfterLastArrow(p, PathText(l))
                       /\ ~IsBeforeFirstArrow(p, PathText(l))
        /\ repo.lines = <<Line("R", " ", RenameSpaced)>> =>
               /\ status.Staged = <<[Path |-> <<"n">>, Status |-> "Renamed"]>>
               /\ status.Unstaged = <<>>
               /\ status.Untracked = <<>>

C6_Witness ==
    /\ Returned
    /\ repo.lines = <<Line("R", " ", RenameTwice)>>
    /\ PathsOf(status.Staged) = {<<"n">>}

StatusTable ==
    {<<<<"M", " ">>, "Staged">>, <<<<" ", "M">>, "Modified">>, <<<<"M", "M">>, MMText>>,
     <<<<"A", " ">>, "Added">>, <<<<" ", "D">>, "Deleted">>,
     <<<<"D", " ">>, "Deleted (staged)">>, <<<<"R", " ">>, "Renamed">>,
     <<<<"C", " ">>, "Copied">>, <<<<"?", "?">>, "Untracked">>, <<<<"!", "!">>, "Ignored">>}

\* C8: the lookup is total: each of the ten codes maps to its own
\* category, every other two-character code maps to Unknown.
C8_StatusLookupTotal ==
    /\ \A e1 \in StatusTable, e2 \in StatusTable : e1[2] = e2[2] => e1 = e2
    /\ \A e \in StatusTable : e[2] /= "Unknown"
    /\ Returned =>
           /\ Len(changes) = Len(ValidLines)
           /\ \A k \in 1..Len(ValidLines) :
                  LET code == CodeOf(ValidLines[k])
                  IN  IF \E e \in StatusTable : e[1] = code
                      THEN <<code, changes[k].Status>> \in StatusTable
                      ELSE changes[k].Status = "Unknown"

C8_Witness ==
    /\ Returned
    /\ repo.lines = <<Line("U", "U", F)>>
    /\ changes = <<[Path |-> F, Status |-> "Unknown"]>>

\* GetStatus ran its git commands and returned or failed
GetStatusDone == status.IsRepo \/ err \in {"panic", "failed to get git status"}

\* C9: lines shorter than 3 characters add nothing and cause no error, and
\* the other lines are classified as if the short ones were not there.
C9_ShortLinesSkipped ==
    /\ Returned =>
           LET acc == ParseLines(EmptyLists, ValidLines)
           IN  /\ changes = acc.changes
               /\ status.Staged = acc.Staged
               /\ status.Unstaged = acc.Unstaged
               /\ status.Untracked = acc.Untracked
               /\ Len(changes) = Len(ValidLines)
    /\ GetStatusDone /\ err = "failed to get git status" => ~repo.porcelain.ok
    /\ GetStatusDone /\ err = "panic" => TrimSpace(repo.sb.out) = <<>>

C9_Witness ==
    /\ Returned
    /\ repo.lines = <<<<"M">>, Line("M", " ", F)>>
    /\ status.Staged = <<[Path |-> F, Status |-> "Staged"]>>

\* the -sb summary and the short branch name GetStatus reads
Summary == TrimSuffix(repo.sb.out, Newline)

Generating == aiCall.op = "GenerateCommitMessage"

IsBlank(text) == \A i \in DOMAIN text : text[i] \in Whitespace

KnownProviders == {"openai", "claude", "ollama"}

MissingKey(provider) ==
    [kind |-> "API key is required", provider |-> provider, status |-> 0, body |-> 0]

Unsupported(provider) ==
    [kind |-> "unsupported AI provider", provider |-> provider, status |-> 0, body |-> 0]

\* C11: GenerateCommitMessage with a diff that is empty after trimming
\* returns the empty-diff error, whatever configuration is held, and sends
\* no HTTP request.
C11_EmptyDiffNoRequest ==
    Generating /\ IsBlank(aiCall.diff) =>
        /\ aiCall.err.kind = "diff is empty"
        /\ aiCall.text = <<>>
        /\ requests = <<>>

C11_Witness ==
    /\ Generating
    /\ aiCall.diff = Blank
    /\ config = AIConfig("ollama", "", "http://h", "m")
    /\ aiCall.err.kind = "diff is empty"

\* C12: with an empty API key, validation and GenerateCommitMessage (non-blank
\* diff) fail with the missing-credential error for openai and claude, the
\* latter without an HTTP request; for ollama with an empty key validation
\* succeeds.
C12_CredentialRule ==
    /\ aiCall.op = "ValidateConfig" /\ config.APIKey = "" =>
           /\ config.Provider \in {"openai", "claude"} =>
                  aiCall.err = MissingKey(config.Provider)
           /\ config.Provider = "ollama" => aiCall.err.kind = ""
    /\ aiCall.op = "ValidateConfigParam" /\ aiCall.candidate.APIKey = "" =>
           /\ aiCall.candidate.Provider \in {"openai", "claude"} =>
                  aiCall.err = MissingKey(aiCall.candidate.Provider)
           /\ aiCall.candidate.Provider = "ollama" => aiCall.err.kind = ""
    /\ Generating /\ ~IsBlank(aiCall.diff) /\ config.APIKey = ""
           /\ config.Provider \in {"openai", "claude"} =>
           /\ aiCall.err = MissingKey(config.Provider)
           /\ requests = <<>>

C12_Witness ==
    /\ aiCall.op = "ValidateConfigParam"
    /\ aiCall.candidate = AIConfig("ollama", "", "", "")
    /\ aiCall.err.kind = ""

\* C13 as claimed: with a provider that is empty or unknown,
\* GenerateCommitMessage (non-blank diff) fails with the unsupported-provider
\* error, or the provider-required error when the provider is empty, whatever
\* the API key, and sends no HTTP request.
C13_UnknownProviderWhateverKey ==
    Generating /\ ~IsBlank(aiCall.diff) /\ config.Provider \notin KnownProviders =>
        /\ requests = <<>>
        /\ aiCall.err.kind =
               IF config.Provider = ""
               THEN "provider must be specified"
               ELSE "unsupported AI provider"

\* C13 as amended: with a provider that is empty or unknown,
\* GenerateCommitMessage (non-blank diff) sends no HTTP request and fails:
\* with the missing-credential error when the API key is empty, with the
\* unsupported-provider error (for the empty provider too) when it is not.
C13_UnknownProviderFails ==
    Generating /\ ~IsBlank(aiCall.diff) /\ config.Provider \notin KnownProviders =>
        /\ requests = <<>>
        /\ aiCall.err =
               IF config.APIKey = ""
               THEN MissingKey(config.Provider)
               ELSE Unsupported(config.Provider)

C13_Witness ==
    /\ Generating
    /\ ~IsBlank(aiCall.diff)
    /\ config.Provider = "gemini"
    /\ config.APIKey = "k"
    /\ aiCall.err.kind = "unsupported AI provider"

\* GenerateCommitMessage with held configuration c and a non-blank diff fails
\* its credential or provider check
PreflightRejects(c) ==
    \/ c.APIKey = "" /\ c.Provider /= "ollama"
    \/ c.Provider \notin KnownProviders

\* C14 as claimed: validation returns an error exactly when
\* GenerateCommitMessage with the same configuration fails its credential or
\* provider check; a provider outside the three known ones is rejected.
C14_ValidationMirrorsPreflight ==
    /\ aiCall.op = "ValidateConfigParam" =>
           (aiCall.err.kind /= "" <=> PreflightRejects(aiCall.candidate))
    /\ aiCall.op = "ValidateConfig" =>
           (aiCall.err.kind /= "" <=> PreflightRejects(config))
    /\ Generating /\ ~IsBlank(aiCall.diff) =>
           (PreflightRejects(config) <=>
                aiCall.err.kind \in {"API key is required", "unsupported AI provider"})

\* the server's answer to the request of the last call
Answered == Responses[aiCall.resp]

\* the last call was a GenerateCommitMessage that sent a request
Sent == Generating /\ requests /= <<>>

DefaultModel(provider) ==
    CASE provider = "openai" -> "gpt-4"
      [] provider = "claude" -> "claude-3-sonnet-20240229"
      [] provider = "ollama" -> "llama2"

DefaultBase(provider) ==
    CASE provider = "openai" -> "https://api.openai.com/v1"
      [] provider = "claude" -> "https://api.anthropic.com/v1"
      [] provider = "ollama" -> "http://localhost:11434"

Suffix(provider) ==
    CASE provider = "openai" -> "/chat/completions"
      [] provider = "claude" -> "/messages"
      [] provider = "ollama" -> "/api/generate"

\* the request carries the credential of configuration c
CarriesKey(request, c) ==
    CASE c.Provider = "openai" -> <<"Authorization", "Bearer " \o c.APIKey>> \in request.headers
      [] c.Provider = "claude" -> <<"x-api-key", c.APIKey>> \in request.headers
      [] OTHER -> TRUE

\* C15: ValidateConfigParam leaves the held configuration as it was, and a
\* GenerateCommitMessage that follows it builds its request from the held
\* configuration, not from the candidate.
C15_ValidateParamKeepsConfig ==
    [][/\ aiCall'.op = "ValidateConfigParam" => config' = config
       /\ aiCall.op = "ValidateConfigParam" /\ aiCall'.op = "GenerateCommitMessage"
              /\ requests' /= <<>> =>
              /\ config' = config
              /\ config.Provider \in KnownProviders
              /\ requests'[1].url =
                     (IF config.BaseURL = "" THEN DefaultBase(config.Provider)
                      ELSE config.BaseURL) \o Suffix(config.Provider)
              /\ requests'[1].model =
                     (IF config.Model = "" THEN DefaultModel(config.Provider)
                      ELSE config.Model)
              /\ CarriesKey(requests'[1], config)]_vars

C15_Witness ==
    /\ aiCall.op = "ValidateConfigParam"
    /\ aiCall.candidate = AIConfig("ollama", "", "", "")
    /\ aiCall.err.kind = ""
    /\ config = AIConfig("claude", "k", "http://h", "m")

\* C16: the model name a request carries is the held model when that is not
\* empty, and otherwise gpt-4 for openai, claude-3-sonnet-20240229 for claude
\* and llama2 for ollama.
C16_ModelDefault ==
    Sent =>
        requests[1].model =
            IF config.Model /= "" THEN config.Model ELSE DefaultModel(config.Provider)

C16_Witness ==
    /\ Sent
    /\ config.Provider = "claude"
    /\ config.Model = ""
    /\ requests[1].model = "claude-3-sonnet-20240229"

\* C17: the request is a POST to the held base URL, or to the provider's
\* default base URL when the held one is empty, followed by
\* /chat/completions for openai, /messages for claude and /api/generate for
\* ollama.
C17_PostToBasePlusSuffix ==
    Sent =>
        /\ config.Provider \in KnownProviders
        /\ requests[1].method = "POST"
        /\ requests[1].url =
               (IF config.BaseURL /= "" THEN config.BaseURL
                ELSE DefaultBase(config.Provider)) \o Suffix(config.Provider)

C17_Witness ==
    /\ Sent
    /\ config.Provider = "ollama"
    /\ config.BaseURL = ""
    /\ requests[1].url = "http://localhost:11434/api/generate"

\* C18: a GenerateCommitMessage call sends at most one HTTP request; when the
\* answer's status is outside 200..299 the call fails with the HTTP error that
\* carries that status and that body, and the request is not sent again.
C18_OneRequestNoRetry ==
    /\ Len(requests) <= 1
    /\ Sent /\ Answered.transport = "ok" /\ Answered.status \notin 200..299 =>
           /\ aiCall.err.kind = "API error"
           /\ aiCall.err.status = Answered.status
           /\ aiCall.err.body = Answered.body
           /\ aiCall.text = <<>>
           /\ Len(requests) = 1

C18_Witness ==
    /\ Sent
    /\ config.Provider = "claude"
    /\ Answered.transport = "ok"
    /\ Answered.status = 404
    /\ aiCall.err.kind = "API error"
    /\ aiCall.err.status = 404

\* the response bodies that have the shape the provider's API promises
ShapedBodies(provider) ==
    CASE provider = "openai" -> {12, 13}
      [] provider = "claude" -> {19, 20}
      [] provider = "ollama" -> {22, 23}

MalformedResponseErrors ==
    {"failed to parse response", "no choices in response",
     "no content in response", "no response in output"}

\* C19 as claimed: a 200 answer whose body is not JSON, or is JSON without
\* the shape the provider promises, makes the call fail with a
\* malformed-response error; the call never panics.
C19_MalformedResponseIsError ==
    Sent /\ Answered.transport = "ok" /\ Answered.status = 200
         /\ Answered.body \notin ShapedBodies(config.Provider) =>
        aiCall.err.kind \in MalformedResponseErrors

\* C20 as claimed: the text a successful GenerateCommitMessage returns has no
\* white space at either end and is not empty.
C20_SuccessTextTrimmedNonEmpty ==
    Generating /\ aiCall.err.kind = "" =>
        /\ aiCall.text /= <<>>
        /\ aiCall.text[1] \notin Whitespace
        /\ aiCall.text[Len(aiCall.text)] \notin Whitespace

(***************************************************************************)
(* properties of App                                                       *)
(***************************************************************************)

\* the last call was App.GenerateCommitMessage and its GetStatus succeeded
Collected == appCall.op = "GenerateCommitMessage" /\ err = ""

\* the positions of the staged files whose git diff succeeded
FetchedFiles == {i \in DOMAIN appCall.fetches : appCall.fetches[i].ok}

\* the section of the i-th staged file
SectionOf(i) ==
    Section(appCall.staged[i].Path, TrimSuffix(appCall.fetches[i].out, Newline))

\* the sections of the staged files from position i on whose fetch succeeded
RECURSIVE SectionsFrom(_)
SectionsFrom(i) ==
    IF i > Len(appCall.staged)
    THEN <<>>
    ELSE (IF i \in FetchedFiles THEN SectionOf(i) ELSE <<>>) \o SectionsFrom(i + 1)

\* C21: a staged file whose diff fetch fails is left out of the aggregate
\* diff and the collection goes on: the aggregate is, in Staged order, one
\* section for each staged file whose fetch succeeded, and the AI service is
\* called with it whenever at least one fetch succeeded.
C21_FailedFetchOmitted ==
    Collected =>
        /\ appCall.staged = status.Staged
        /\ Len(appCall.fetches) = Len(appCall.staged)
        /\ appCall.diff = SectionsFrom(1)
        /\ FetchedFiles /= {} =>
               /\ aiCall.op = "GenerateCommitMessage"
               /\ aiCall.diff = appCall.diff
               /\ appCall.err = aiCall.err.kind
               /\ appCall.text = aiCall.text

C21_Witness ==
    /\ Collected
    /\ Len(appCall.staged) = 3
    /\ appCall.fetches = <<Fetched, Failed, Fetched>>
    /\ appCall.diff = SectionOf(1) \o SectionOf(3)
    /\ aiCall.diff = appCall.diff
    /\ requests /= <<>>

\* C22: TestAIConnection(config) returns the validation result of the
\* supplied configuration when its Provider is not empty and that of the held
\* configuration when it is, and changes neither the held nor the persisted
\* configuration.
C22_TestConnectionValidatesOnly ==
    [][appCall'.op = "TestAIConnection" =>
           /\ config' = config
           /\ persisted' = persisted
           /\ appCall'.cause =
                  IF appCall'.config.Provider /= ""
                  THEN ValidationError(appCall'.config)
                  ELSE ValidationError(config)
           /\ appCall'.err = "" <=> appCall'.cause = NoError]_vars

C22_Witness ==
    /\ appCall.op = "TestAIConnection"
    /\ appCall.config = AIConfig("", "k", "", "")
    /\ config = AIConfig("ollama", "", "", "")
    /\ persisted = config
    /\ appCall.err = ""

\* C23 as claimed: a SetAIConfig call that returns a validation error leaves
\* the held configuration as it was, and an accepted one leaves the held
\* configuration equal to the one handed to the config service.
C23_RejectedConfigNotHeld ==
    [][/\ appCall'.op = "SetAIConfig"
              /\ appCall'.err = "AI configuration validation failed" =>
              config' = config
       /\ appCall'.op = "SetAIConfig" /\ appCall'.cause = NoError =>
              config' = appCall'.config /\ persisted' = config']_vars

\* C24 as claimed: after startup the held configuration equals the
\* configuration the config service returns, for every persisted
\* configuration.
C24_StartupLoadsPersisted ==
    appCall.op = "startup" => config = persisted

(***************************************************************************)
(* further properties of GetStatus                                         *)
(***************************************************************************)

\* C25 as claimed (here for the outputs of well-formed lines, as git prints
\* them): every line of length >= 3 whose code is one of "M ", " M",
\* "MM", "A ", " D", "D ", "R ", "C ", "??" puts its path in at least one of
\* Staged, Unstaged, Untracked: no recognised change, a deletion included,
\* is dropped.
C25_NoRecognisedChangeDropped ==
    Returned /\ WellFormed =>
        \A i \in DOMAIN repo.lines :
            LET l == repo.lines[i]
            IN  Valid(l) /\ CodeOf(l) \in PrintedCodes => PathOfLine(l) \in RecordedPaths

\* C26 as claimed (here for the outputs of well-formed lines, as git prints
\* them): for a line whose index character is neither R nor C the recorded
\* path is the text after the third character, unchanged, also when the
\* file name contains "->".
C26_PlainPathUnchanged ==
    Returned /\ WellFormed =>
        /\ Len(changes) = Len(repo.lines)
        /\ \A i \in DOMAIN repo.lines :
               LET l == repo.lines[i]
               IN  l[1] \notin {"R", "C"} => changes[i].Path = PathText(l)

(***************************************************************************)
(* properties of the recent-repository list                                *)
(***************************************************************************)

NoDuplicates(list) == \A i, j \in DOMAIN list : list[i] = list[j] => i = j

\* the entries of new other than path come from old, in the order of old
KeepsOrder(old, new, path) ==
    /\ \A i \in DOMAIN new : new[i] /= path => \E k \in DOMAIN old : old[k] = new[i]
    /\ \A i, j \in DOMAIN new :
           i < j /\ new[i] /= path /\ new[j] /= path =>
               \E k, l \in DOMAIN old : k < l /\ old[k] = new[i] /\ old[l] = new[j]

\* what holds of the list after each call
RecentListKept ==
    /\ NoDuplicates(recentRepos')
    /\ Len(recentRepos') <= 10
    /\ appCall'.op = "AddRecentRepo" =>
           /\ recentRepos' /= <<>>
           /\ recentRepos'[1] = appCall'.path
           /\ KeepsOrder(recentRepos, recentRepos', appCall'.path)
    /\ appCall'.op = "RemoveRecentRepo" =>
           /\ \A i \in DOMAIN recentRepos' : recentRepos'[i] /= appCall'.path
           /\ KeepsOrder(recentRepos, recentRepos', appCall'.path)

Defaults(list) == {list[i].ID : i \in {j \in DOMAIN list : list[j].IsDefault}}

DefaultCount(list) == Cardinality({i \in DOMAIN list : list[i].IsDefault})

\* the store the last TemplateService call worked on
StoreOf(call) == IF call.store = "db" THEN promptRows ELSE prompts

\* the last call succeeded and asked for a prompt to be the default
AskedDefault(call) ==
    /\ call.err = ""
    /\ \/ call.op = "CreatePrompt" /\ call.isDefault
       \/ call.op = "UpdatePrompt" /\ call.isDefault
       \/ call.op = "SetDefaultPrompt" /\ call.existed

\* C28: starting from createDefaultPrompts' list, after any sequence of
\* CreatePrompt, UpdatePrompt, SetDefaultPrompt and DeletePrompt calls at most
\* one prompt is the default, in the file and in the database, and after a
\* successful call that asked for a prompt to be the default exactly that
\* prompt is the default.
C28_AtMostOneDefault ==
    /\ DefaultCount(prompts) <= 1
    /\ DefaultCount(promptRows) <= 1
    /\ AskedDefault(promptCall) =>
           /\ DefaultCount(StoreOf(promptCall)) = 1
           /\ Defaults(StoreOf(promptCall)) = {promptCall.id}

(***************************************************************************)
(* properties of the operations of GitService                              *)
(***************************************************************************)

Selecting(call) == call.op \in {"SetPath", "Clone"}

RanGit(call) == call.cmds /= <<>>

\* what a call of GitService may do to the path, and when it runs git
GuardedStep ==
    /\ currentPath' /= currentPath =>
           /\ Selecting(gitCall')
           /\ gitCall'.err = ""
           /\ currentPath' /= ""
    /\ Selecting(gitCall') /\ gitCall'.err /= "" => currentPath' = currentPath
    /\ ~Selecting(gitCall') =>
           IF currentPath = ""
           THEN ~RanGit(gitCall') /\ gitCall'.err = "no repository selected"
           ELSE gitCall'.err /= "no repository selected"

\* C29: an operation other than Clone and SetPath runs a git command only
\* when the path is not empty, and returns "no repository selected" when it
\* is empty; the path changes only in a successful SetPath or Clone, to a
\* path that is not empty, and a failed SetPath or Clone leaves it as it was.
C29_NoGitWithoutRepository == [][GuardedStep]_vars

\* a repository was cloned into /work and files were staged there
C29_Witness ==
    /\ gitCall.op = "StageFiles"
    /\ RanGit(gitCall)
    /\ gitCall.err = ""
    /\ currentPath = "/work"

\* the argument list of git tag that carries the name: -a -m message when
\* there is a message, the name, the commit when there is one
NamedTagArgs(name, message, commit) ==
    <<"tag">> \o (IF message /= "" THEN <<"-a", "-m", message>> ELSE <<>>) \o <<name>>
        \o (IF commit /= "" THEN <<commit>> ELSE <<>>)

\* C30: with a repository selected, CreateTag with an empty name fails
\* without running git, and with a name runs one git tag command whose
\* arguments hold the name, after -a -m message when a message is given and
\* before the commit when one is given.
C30_TagNamePassed ==
    gitCall.op = "CreateTag" /\ currentPath /= "" =>
        LET name == gitCall.params[1]
            message == gitCall.params[2]
            commit == gitCall.params[3]
        IN  IF name = ""
            THEN ~RanGit(gitCall) /\ gitCall.err = "tag name cannot be empty"
            ELSE gitCall.cmds = <<NamedTagArgs(name, message, commit)>>

===============================================================================
